---- MODULE Spec2Model ----
(***************************************************************************)
(* A model of the vpc-node-label-updater package nodeupdater: the retry    *)
(* governor ErrorRetry, the instance resolver (GetWorkerDetails,           *)
(* GetInstanceByName, GetInstanceByIP, GetInstancesFromVPC, getNodeInfo),   *)
(* the label presence check, the label reconciler UpdateNodeLabel, and     *)
(* the construction of the secret configuration                            *)
(* (ReadStorageSecretConfiguration, getEndpointURL, GetAccessToken).       *)
(*                                                                         *)
(* Go strings whose contents the code inspects (worker identifiers, zone   *)
(* names, instance ids, label values) are sequences of one-character       *)
(* strings.  Label keys and query keys are only compared for equality and  *)
(* are TLA+ strings.                                                       *)
(***************************************************************************)
EXTENDS Integers, Sequences, FiniteSets, TLC

\* ------------------------------------------------------------------ bounds
\* The longest instance list the infrastructure API answers with.
MaxInstances == 2
\* The number of operations invoked on one updater, one after the other.
MaxCalls == 2

\* --------------------------------------------------------------- constants
workerIDLabelKey == "ibm-cloud.kubernetes.io/worker-id"
instanceIDLabelKey == "ibm-cloud.kubernetes.io/vpc-instance-id"
failureRegionLabelKey == "failure-domain.beta.kubernetes.io/region"
failureZoneLabelKey == "failure-domain.beta.kubernetes.io/zone"
topologyRegionLabelKey == "topology.kubernetes.io/region"
topologyZoneLabelKey == "topology.kubernetes.io/zone"
vpcBlockLabelKey == "vpc-block-csi-driver-labels"
maxAttempts == 30
\* retryInterval = "10s", in seconds
retryInterval == 10
vpcGeneration == <<"2">>
vpcRiaasVersion == <<"2","0","2","0","-","0","1","-","0","1">>

\* ------------------------------------------------------------ Go strings
Digits == {"0","1","2","3","4","5","6","7","8","9"}
HexLetters == {"a","b","c","d","e","f"}

DigitVal(c) ==
  CASE c = "0" -> 0 [] c = "1" -> 1 [] c = "2" -> 2 [] c = "3" -> 3
    [] c = "4" -> 4 [] c = "5" -> 5 [] c = "6" -> 6 [] c = "7" -> 7
    [] c = "8" -> 8 [] c = "9" -> 9 [] c = "a" -> 10 [] c = "b" -> 11
    [] c = "c" -> 12 [] c = "d" -> 13 [] c = "e" -> 14 [] c = "f" -> 15

\* s[k:] of Go, k counted from 0.
From(s, k) == SubSeq(s, k + 1, Len(s))

\* strings.LastIndex(s, c) for a one-character c: the 0-based index of the
\* last occurrence, -1 when there is none.
LastIndex(s, c) ==
  LET hits == {k \in 1..Len(s) : s[k] = c}
  IN  IF hits = {} THEN -1
      ELSE (CHOOSE k \in hits : \A j \in hits : j <= k) - 1

\* strings.Index(s, sub): the 0-based index of the first occurrence of sub
\* in s, -1 when there is none.
Index(s, sub) ==
  LET hits == {k \in 1..(Len(s) - Len(sub) + 1) : SubSeq(s, k, k + Len(sub) - 1) = sub}
  IN  IF hits = {} THEN -1
      ELSE (CHOOSE k \in hits : \A j \in hits : k <= j) - 1

\* strings.Contains(s, sub)
Contains(s, sub) == Index(s, sub) >= 0

\* strings.Replace(s, old, new, 1): the first occurrence of old replaced.
Replace1(s, old, new) ==
  LET at == Index(s, old)
  IN  IF at < 0 THEN s
      ELSE SubSeq(s, 1, at) \o new \o From(s, at + Len(old))

Letters ==
  {"a","b","c","d","e","f","g","h","i","j","k","l","m",
   "n","o","p","q","r","s","t","u","v","w","x","y","z"}

\* getScheme of net/url, as url.Parse applies it: the text before the first
\* ':' when it is a letter followed by letters, digits, '+', '-' and '.';
\* the empty string when another character comes first.  (A rawURL that
\* begins with ':' is a parse error; no endpoint of the model does.)
RECURSIVE getSchemeFrom(_, _)
getSchemeFrom(rawURL, k) ==
  IF k > Len(rawURL) THEN <<>>
  ELSE IF rawURL[k] \in Letters THEN getSchemeFrom(rawURL, k + 1)
  ELSE IF rawURL[k] \in Digits \cup {"+", "-", "."}
       THEN (IF k = 1 THEN <<>> ELSE getSchemeFrom(rawURL, k + 1))
  ELSE IF rawURL[k] = ":" /\ k > 1 THEN SubSeq(rawURL, 1, k - 1)
  ELSE <<>>

getScheme(rawURL) == getSchemeFrom(rawURL, 1)

S_http == <<"h","t","t","p">>
S_https == <<"h","t","t","p","s">>
S_httpColonSlashSlash == <<"h","t","t","p",":","/","/">>

\* getEndpointURL: when "http://" occurs anywhere in url, the first "http"
\* of url becomes "https".
getEndpointURL(url) ==
  IF Contains(url, S_httpColonSlashSlash)
  THEN Replace1(url, S_http, S_https)
  ELSE url

\* The endpoint values a configuration file may hold.
E_http == <<"h","t","t","p",":","/","/","a">>
E_https == <<"h","t","t","p","s",":","/","/","a">>
E_httpd == <<"h","t","t","p","d",":","/","/","a">>
E_bare == <<"a",".","b">>
E_empty == <<>>
E_ftpThenHttp == <<"f","t","p",":","/","/","h","t","t","p",":","/","/","a">>
E_httpsThenHttp == <<"h","t","t","p","s",":","/","/","a","?","h","t","t","p",":","/","/","b">>
G2EndpointURLs == {E_http, E_empty}
G2TokenExchangeURLs ==
  {E_http, E_https, E_httpd, E_bare, E_empty, E_ftpThenHttp, E_httpsThenHttp}

\* ------------------------------------------------------------ net.ParseIP
\* dtoi / xtoi of package net: the leading number of s in the given base,
\* the count of characters it takes, and whether there is one.
RECURSIVE xtoiFrom(_, _, _, _)
xtoiFrom(s, k, n, base) ==
  IF k <= Len(s) /\ s[k] \in (IF base = 10 THEN Digits ELSE Digits \cup HexLetters)
  THEN LET n2 == n * base + DigitVal(s[k])
       IN  IF n2 >= 16777215
           THEN [n |-> 0, c |-> k, ok |-> FALSE]
           ELSE xtoiFrom(s, k + 1, n2, base)
  ELSE IF k = 1
       THEN [n |-> 0, c |-> 0, ok |-> FALSE]
       ELSE [n |-> n, c |-> k - 1, ok |-> TRUE]

dtoi(s) == xtoiFrom(s, 1, 0, 10)
xtoi(s) == xtoiFrom(s, 1, 0, 16)

\* parseIPv4: four decimal fields of value at most 255, separated by dots,
\* none with a leading zero, and nothing after them.  TRUE when the result
\* is not nil.
RECURSIVE parseIPv4From(_, _)
parseIPv4From(s, i) ==
  IF i = 4 THEN Len(s) = 0
  ELSE IF Len(s) = 0 THEN FALSE
  ELSE IF i > 0 /\ s[1] # "." THEN FALSE
  ELSE LET t == IF i > 0 THEN Tail(s) ELSE s
           d == dtoi(t)
       IN  IF ~d.ok \/ d.n > 255 THEN FALSE
           ELSE IF d.c > 1 /\ t[1] = "0" THEN FALSE
           ELSE parseIPv4From(From(t, d.c), i + 1)

parseIPv4(s) == parseIPv4From(s, 0)

\* The end of parseIPv6: the whole string is used, and the ellipsis stands
\* for at least one group exactly when fewer than 16 bytes were parsed.
parseIPv6End(s, i, ellipsis) ==
  /\ Len(s) = 0
  /\ IF i < 16 THEN ellipsis >= 0 ELSE ellipsis < 0

\* The loop of parseIPv6: hex groups followed by colons, one ellipsis, and
\* possibly a trailing dotted IPv4 address.
RECURSIVE parseIPv6Loop(_, _, _)
parseIPv6Loop(s, i, ellipsis) ==
  LET x == xtoi(s)
  IN  IF ~x.ok \/ x.n > 65535 THEN FALSE
      ELSE IF x.c < Len(s) /\ s[x.c + 1] = "."
      THEN /\ ~(ellipsis < 0 /\ i # 12)
           /\ i + 4 <= 16
           /\ parseIPv4(s)
           /\ parseIPv6End(<<>>, i + 4, ellipsis)
      ELSE LET i2 == i + 2
               s2 == From(s, x.c)
           IN  IF Len(s2) = 0 THEN parseIPv6End(s2, i2, ellipsis)
               ELSE IF s2[1] # ":" \/ Len(s2) = 1 THEN FALSE
               ELSE LET s3 == Tail(s2)
                    IN  IF s3[1] = ":"
                        THEN IF ellipsis >= 0 THEN FALSE
                             ELSE IF Len(s3) = 1 \/ i2 >= 16
                                  THEN parseIPv6End(Tail(s3), i2, i2)
                                  ELSE parseIPv6Loop(Tail(s3), i2, i2)
                        ELSE IF i2 >= 16
                             THEN parseIPv6End(s3, i2, ellipsis)
                             ELSE parseIPv6Loop(s3, i2, ellipsis)

parseIPv6(s) ==
  LET lead == Len(s) >= 2 /\ s[1] = ":" /\ s[2] = ":"
      rest == IF lead THEN From(s, 2) ELSE s
  IN  IF lead /\ Len(rest) = 0 THEN TRUE
      ELSE parseIPv6Loop(rest, 0, IF lead THEN 0 ELSE -1)

\* net.ParseIP(s) != nil: the first '.' or ':' of s decides the parser.
ParseIP(s) ==
  LET seps == {k \in 1..Len(s) : s[k] \in {".", ":"}}
  IN  IF seps = {} THEN FALSE
      ELSE LET first == CHOOSE k \in seps : \A j \in seps : k <= j
           IN  IF s[first] = "." THEN parseIPv4(s) ELSE parseIPv6(s)


\* ------------------------------------------------------------- url.Values
\* RawQuery is the sequence of its key=value pairs, in the order of the
\* text.  The identifiers of the model hold only characters QueryEscape
\* leaves as they are.
BaseQuery ==
  << [k |-> "generation", v |-> vpcGeneration],
     [k |-> "version", v |-> vpcRiaasVersion] >>

\* The query keys in the order sort.Strings gives them.
SortedKeys == <<"generation", "name", "version">>

\* url.URL.Query(): the values of each key, in the order of the text.
RECURSIVE ValuesOf(_, _)
ValuesOf(raw, key) ==
  IF raw = <<>> THEN <<>>
  ELSE (IF raw[1].k = key THEN <<raw[1].v>> ELSE <<>>) \o ValuesOf(Tail(raw), key)

Query(raw) ==
  [key \in {raw[n].k : n \in 1..Len(raw)} |-> ValuesOf(raw, key)]

\* url.Values.Add(key, value)
Add(q, key, value) ==
  [x \in DOMAIN q \cup {key} |->
     IF x = key
     THEN (IF x \in DOMAIN q THEN q[x] ELSE <<>>) \o <<value>>
     ELSE q[x]]

\* url.Values.Encode(): the keys sorted, each with its values in order.
RECURSIVE EncodeFrom(_, _)
EncodeFrom(q, n) ==
  IF n > Len(SortedKeys) THEN <<>>
  ELSE LET key == SortedKeys[n]
           own == IF key \in DOMAIN q
                  THEN [m \in 1..Len(q[key]) |-> [k |-> key, v |-> q[key][m]]]
                  ELSE <<>>
       IN  own \o EncodeFrom(q, n + 1)

Encode(q) == EncodeFrom(q, 1)

\* ------------------------------------------------------------------ errors
Nil == [kind |-> "nil", n |-> 0, name |-> <<>>]
\* The error of the n-th invocation of a supplied operation.
OpError(n) == [kind |-> "operation", n |-> n, name |-> <<>>]
\* "dial tcp: ...": the transport's connection error of the n-th attempt.
ConnError(n) == [kind |-> "dial tcp", n |-> n, name |-> <<>>]
\* "unsupported protocol scheme": the transport refuses a URL with no scheme.
SchemeError == [kind |-> "unsupported protocol scheme", n |-> 0, name |-> <<>>]
\* Any other transport error, e.g. a failed TLS handshake.
TransportError(n) == [kind |-> "transport", n |-> n, name |-> <<>>]
ReadError == [kind |-> "read body", n |-> 0, name |-> <<>>]
UnmarshalError == [kind |-> "failed to unmarshal json response of instances", n |-> 0, name |-> <<>>]
EmptyListError == [kind |-> "failed to get worker details as instance list is empty", n |-> 0, name |-> <<>>]
NotFoundError(w) == [kind |-> "worker was not found in the instanceList", n |-> 0, name |-> w]
ConflictError == [kind |-> "conflict", n |-> 0, name |-> <<>>]
UpdateError == [kind |-> "update failed", n |-> 0, name |-> <<>>]
\* "status Code: <code>, check API key providied"
StatusError(code) == [kind |-> "status Code", n |-> code, name |-> <<>>]
TokenUnmarshalError == [kind |-> "failed to unmarshal json response for access token", n |-> 0, name |-> <<>>]

\* IsConnectionError that takes every error for a connection error.
IsConnectionErrorAny(e) == e # Nil

\* iam.IsConnectionError: an error whose text holds "tcp".
IsConnectionError(e) == e # Nil /\ e.kind = "dial tcp"

\* errors.IsConflict of k8s.io/apimachinery
IsConflict(e) == e # Nil /\ e.kind = "conflict"

\* -------------------------------------------------------------- ErrorRetry
\* What the loop body does with the result of one invocation, at loop
\* counter i: leave the loop and return err ("return"), or sleep and go on.
\* ErrorRetryStep with the budget test off by one: i >= maxAttempts.
ErrorRetryStepOffByOne(e, stop, i) ==
  IF stop THEN [next |-> "return", err |-> e]
  ELSE IF e = Nil THEN [next |-> "return", err |-> e]
  ELSE IF i >= maxAttempts THEN [next |-> "return", err |-> e]
  ELSE [next |-> "sleep", err |-> e]

\* ErrorRetryStep without the return on a nil error.
ErrorRetryStepNoEarlyReturn(e, stop, i) ==
  IF stop THEN [next |-> "return", err |-> e]
  ELSE IF i >= maxAttempts - 1 THEN [next |-> "return", err |-> e]
  ELSE [next |-> "sleep", err |-> e]

\* ErrorRetryStep without the break on shouldStop.
ErrorRetryStepIgnoreStop(e, stop, i) ==
  IF e = Nil THEN [next |-> "return", err |-> e]
  ELSE IF i >= maxAttempts - 1 THEN [next |-> "return", err |-> e]
  ELSE [next |-> "sleep", err |-> e]

\* The value returned is the err the invocation just assigned.
ErrorRetryStep(e, stop, i) ==
  IF stop THEN [next |-> "return", err |-> e]
  ELSE IF e = Nil THEN [next |-> "return", err |-> e]
  ELSE IF i >= maxAttempts - 1 THEN [next |-> "return", err |-> e]
  ELSE [next |-> "sleep", err |-> e]


\* ------------------------------------------------------------ identifiers
\* The worker identifiers (NODE_NAME) of the model.
W_10_0_0_5 == <<"1","0",".","0",".","0",".","5">>
W_loopback6 == <<":",":","1">>
W_worker1 == <<"w","o","r","k","e","r","-","1">>
W_10_0_0_256 == <<"1","0",".","0",".","0",".","2","5","6">>
Workers == {W_10_0_0_5, W_loopback6, W_worker1, W_10_0_0_256}

\* --------------------------------------------------------------- instances
\* Instance of data_types.go, with the fields the code reads.  Zone and
\* PrimaryNetworkInterface are pointers: nil when the record has none.
Instance(id, name, zone, ip) ==
  [ID |-> id, Name |-> name, Zone |-> zone, PrimaryNetworkInterface |-> ip]
NilZone == [nil |-> TRUE, Name |-> <<>>]
Zone(name) == [nil |-> FALSE, Name |-> name]
NilInterface == [nil |-> TRUE, PrimaryIpv4Address |-> <<>>]
NetworkInterface(ip) == [nil |-> FALSE, PrimaryIpv4Address |-> ip]

Z_us_south_1 == <<"u","s","-","s","o","u","t","h","-","1">>
Z_xyz_1 == <<"x","y","z","-","1">>
Z_flat == <<"z","o","n","e","1">>

InsWorker1 ==
  Instance(<<"i","1">>, W_worker1, Zone(Z_us_south_1), NetworkInterface(W_10_0_0_5))
InsOther ==
  Instance(<<"i","2">>, <<"o","t","h","e","r">>, Zone(Z_xyz_1),
           NetworkInterface(<<"1","0",".","0",".","0",".","6">>))
InsFlatZone ==
  Instance(<<"i","3">>, W_worker1, Zone(Z_flat), NetworkInterface(W_10_0_0_5))
InsNoZone ==
  Instance(<<"i","4">>, W_worker1, NilZone, NetworkInterface(W_10_0_0_5))
InsNoInterface ==
  Instance(<<"i","5">>, <<"o","t","h","e","r">>, Zone(Z_us_south_1), NilInterface)
Instances == {InsWorker1, InsOther, InsFlatZone, InsNoZone, InsNoInterface}

RECURSIVE ListsUpTo(_)
ListsUpTo(n) ==
  IF n = 0 THEN {<<>>}
  ELSE LET shorter == ListsUpTo(n - 1)
       IN  shorter \cup {Append(l, x) : l \in {m \in shorter : Len(m) = n - 1}, x \in Instances}
InstanceLists == ListsUpTo(MaxInstances)

\* NodeInfo of data_types.go; NoNodeInfo is the nil *NodeInfo.
NodeInfo(id, region, zone) ==
  [nil |-> FALSE, InstanceID |-> id, Region |-> region, Zone |-> zone]
NoNodeInfo == [nil |-> TRUE, InstanceID |-> <<>>, Region |-> <<>>, Zone |-> <<>>]

\* The result of a resolver: a runtime panic, or (nodeinfo, err).
Panicked == [panic |-> TRUE, info |-> NoNodeInfo, err |-> Nil]
Returned(info, e) == [panic |-> FALSE, info |-> info, err |-> e]

\* getNodeInfo that slices the zone name at its first hyphen.
getNodeInfoFirstHyphen(instance) ==
  IF instance.Zone.nil THEN Panicked
  ELSE LET zone == instance.Zone.Name
           firstInd == Index(zone, <<"-">>)
       IN  IF firstInd < 0 THEN Panicked
           ELSE Returned(NodeInfo(instance.ID, SubSeq(zone, 1, firstInd), zone), Nil)

\* getNodeInfo: dereferences instance.Zone, slices the zone name at its
\* last hyphen.  A nil Zone and a slice bound of -1 are runtime panics.
getNodeInfo(instance) ==
  IF instance.Zone.nil THEN Panicked
  ELSE LET zone == instance.Zone.Name
           lastInd == LastIndex(zone, "-")
       IN  IF lastInd < 0 THEN Panicked
           ELSE Returned(NodeInfo(instance.ID, SubSeq(zone, 1, lastInd), zone), Nil)

\* GetInstanceByNameResult that accepts the first entry only when its name
\* is the identifier.
GetInstanceByNameResultVerified(instanceList, workerNodeName) ==
  IF instanceList[1].Name = workerNodeName
  THEN getNodeInfo(instanceList[1])
  ELSE Returned(NoNodeInfo, NotFoundError(workerNodeName))

\* GetInstanceByName after the fetch: the first entry of the list.  With an
\* empty list instanceList[0] is an index out of range, a runtime panic.
GetInstanceByNameResult(instanceList, workerNodeName) ==
  IF Len(instanceList) = 0 THEN Panicked
  ELSE getNodeInfo(instanceList[1])

\* GetInstanceByIPResult that takes the first entry without comparing.
GetInstanceByIPResultFirstEntry(instanceList, workerNodeName) ==
  IF instanceList = <<>> THEN Returned(NoNodeInfo, NotFoundError(workerNodeName))
  ELSE getNodeInfo(Head(instanceList))

\* GetInstanceByIP after the fetch: the first entry, in list order, whose
\* primary IPv4 address is the identifier.  Reading the address of an entry
\* with no primary network interface is a nil dereference.
RECURSIVE GetInstanceByIPResult(_, _)
GetInstanceByIPResult(instanceList, workerNodeName) ==
  IF instanceList = <<>> THEN Returned(NoNodeInfo, NotFoundError(workerNodeName))
  ELSE LET instanceItem == Head(instanceList)
       IN  IF instanceItem.PrimaryNetworkInterface.nil THEN Panicked
           ELSE IF instanceItem.PrimaryNetworkInterface.PrimaryIpv4Address = workerNodeName
                THEN getNodeInfo(instanceItem)
                ELSE GetInstanceByIPResult(Tail(instanceList), workerNodeName)

\* GetWorkerDetails with the test of net.ParseIP inverted.
GetWorkerDetailsInverted(workerNodeName) ==
  IF ParseIP(workerNodeName) THEN "GetInstanceByName" ELSE "GetInstanceByIP"

\* GetWorkerDetails: by name when net.ParseIP gives nil, by address otherwise.
GetWorkerDetails(workerNodeName) ==
  IF ~ParseIP(workerNodeName) THEN "GetInstanceByName" ELSE "GetInstanceByIP"

\* GetInstanceByName before the fetch: the query of the stored endpoint URL
\* with name=<workerNodeName> added, encoded back into the stored URL.
AddNameFilter(rawQuery, workerNodeName) ==
  Encode(Add(Query(rawQuery), "name", workerNodeName))

\* The body of an HTTP response as GetInstancesFromVPC reads it.
Unreadable == [kind |-> "unreadable", instances |-> <<>>]
Garbage == [kind |-> "not json", instances |-> <<>>]
Json(list) == [kind |-> "json", instances |-> list]
Bodies == {Unreadable, Garbage} \cup {Json(l) : l \in InstanceLists}

\* GetInstancesFromVPCResult without the test for an empty list.
GetInstancesFromVPCResultNoEmptyCheck(e, body) ==
  IF e # Nil THEN [instances |-> <<>>, err |-> e]
  ELSE IF body.kind = "unreadable" THEN [instances |-> <<>>, err |-> ReadError]
  ELSE IF body.kind = "not json" THEN [instances |-> <<>>, err |-> UnmarshalError]
  ELSE [instances |-> body.instances, err |-> Nil]

\* GetInstancesFromVPC after ErrorRetry: (instances, err).
GetInstancesFromVPCResult(e, body) ==
  IF e # Nil THEN [instances |-> <<>>, err |-> e]
  ELSE IF body.kind = "unreadable" THEN [instances |-> <<>>, err |-> ReadError]
  ELSE IF body.kind = "not json" THEN [instances |-> <<>>, err |-> UnmarshalError]
  ELSE IF Len(body.instances) = 0 THEN [instances |-> <<>>, err |-> EmptyListError]
  ELSE [instances |-> body.instances, err |-> Nil]

\* ------------------------------------------------------------------ labels
LabelTrue == <<"t","r","u","e">>

\* CheckIfRequiredLabelsPresent that looks at the sentinel alone.
CheckIfRequiredLabelsPresentSentinelOnly(labelMap) ==
  vpcBlockLabelKey \in DOMAIN labelMap

\* CheckIfRequiredLabelsPresent that is content with either key.
CheckIfRequiredLabelsPresentEitherKey(labelMap) ==
  vpcBlockLabelKey \in DOMAIN labelMap \/ instanceIDLabelKey \in DOMAIN labelMap

\* CheckIfRequiredLabelsPresent: both keys are in the map.
CheckIfRequiredLabelsPresent(labelMap) ==
  LET okvpcBlockLabelKey == vpcBlockLabelKey \in DOMAIN labelMap
      okvpcInstanceID == instanceIDLabelKey \in DOMAIN labelMap
  IN  okvpcBlockLabelKey /\ okvpcInstanceID

\* Put that appends to the value a key already has.
PutAppend(labels, key, value) ==
  [k \in DOMAIN labels \cup {key} |->
     IF k = key
     THEN (IF k \in DOMAIN labels THEN labels[k] \o value ELSE value)
     ELSE labels[k]]

\* The seven assignments of UpdateNodeLabel to c.Node.ObjectMeta.Labels.
Put(labels, key, value) ==
  [k \in DOMAIN labels \cup {key} |-> IF k = key THEN value ELSE labels[k]]

\* WriteLabels with region and zone exchanged in the failure-domain keys.
WriteLabelsSwapped(labels, nodeinfo) ==
  Put(Put(Put(Put(Put(Put(Put(labels,
    workerIDLabelKey, nodeinfo.InstanceID),
    instanceIDLabelKey, nodeinfo.InstanceID),
    failureRegionLabelKey, nodeinfo.Zone),
    failureZoneLabelKey, nodeinfo.Region),
    topologyRegionLabelKey, nodeinfo.Region),
    topologyZoneLabelKey, nodeinfo.Zone),
    vpcBlockLabelKey, LabelTrue)

\* WriteLabels without the assignment of the sentinel.
WriteLabelsNoSentinel(labels, nodeinfo) ==
  Put(Put(Put(Put(Put(Put(labels,
    workerIDLabelKey, nodeinfo.InstanceID),
    instanceIDLabelKey, nodeinfo.InstanceID),
    failureRegionLabelKey, nodeinfo.Region),
    failureZoneLabelKey, nodeinfo.Zone),
    topologyRegionLabelKey, nodeinfo.Region),
    topologyZoneLabelKey, nodeinfo.Zone)

WriteLabels(labels, nodeinfo) ==
  Put(Put(Put(Put(Put(Put(Put(labels,
    workerIDLabelKey, nodeinfo.InstanceID),
    instanceIDLabelKey, nodeinfo.InstanceID),
    failureRegionLabelKey, nodeinfo.Region),
    failureZoneLabelKey, nodeinfo.Zone),
    topologyRegionLabelKey, nodeinfo.Region),
    topologyZoneLabelKey, nodeinfo.Zone),
    vpcBlockLabelKey, LabelTrue)

\* UpdateNodeLabelReturn with a conflict taken for success.
UpdateNodeLabelReturnConflictOk(e) ==
  IF e = Nil \/ IsConflict(e)
  THEN [done |-> TRUE, err |-> Nil]
  ELSE [done |-> FALSE, err |-> e]

\* UpdateNodeLabelReturn that loses the error: return false, nil.
UpdateNodeLabelReturnDropsErr(e) ==
  IF e = Nil /\ ~IsConflict(e)
  THEN [done |-> TRUE, err |-> Nil]
  ELSE [done |-> FALSE, err |-> Nil]

\* UpdateNodeLabelReturn that reports done whatever the update answered.
UpdateNodeLabelReturnAlwaysDone(e) ==
  [done |-> TRUE, err |-> e]

\* The end of UpdateNodeLabel: (done, err) from the error of Nodes().Update.
UpdateNodeLabelReturn(e) ==
  IF e = Nil /\ ~IsConflict(e)
  THEN [done |-> TRUE, err |-> Nil]
  ELSE [done |-> FALSE, err |-> e]

\* The label maps a node has when the updater is built.
Old == <<"o","l","d">>
NoLabels == [k \in {} |-> <<>>]
InitialLabels ==
  { [k \in {"test"} |-> <<"t","e","s","t">>],
    [k \in {"test", instanceIDLabelKey} |-> IF k = "test" THEN <<"t","e","s","t">> ELSE Old],
    [k \in {vpcBlockLabelKey, topologyZoneLabelKey} |-> Old] }


\* =================================================================== state
VARIABLES
  pc,                \* where the running operation is; "idle" when none ran yet
  op,                \* the operation invoked: "ErrorRetry" or "UpdateNodeLabel"
  callNo,            \* operations invoked so far on this updater
  RiaasEndpointURL,  \* c.StorageSecretConfig.RiaasEndpointURL: Scheme, RawQuery
  Node,              \* c.Node: its label map, or LabelsNil for a nil map
  workerNodeName,    \* the argument of UpdateNodeLabel
  resolver,          \* the resolver GetWorkerDetails dispatched to
  request,           \* the query of the request last handed to the transport
  i,                 \* ErrorRetry: the loop counter
  err,               \* the err variable of the function at pc
  shouldStop,        \* ErrorRetry: the flag of the last invocation
  calls,             \* invocations of funcToRetry by the ErrorRetry at pc
  sleeps,            \* time.Sleep calls of the ErrorRetry at pc
  status,            \* the status code of the response, 0 with none
  body,              \* the response body GetInstancesFromVPC read, at "resolved"
  nodeinfo,          \* the *NodeInfo GetWorkerDetails returned
  done,              \* the first result of UpdateNodeLabel
  updates,           \* Nodes().Update requests issued by the running call
  submitted,         \* the label map of the last Update request
  pre,               \* RawQuery and Labels as they were when the call began
  answer,            \* the error the latest outside call answered with
  failed,            \* invocations of funcToRetry that answered an error
  present,           \* the result of CheckIfRequiredLabelsPresent
  conf,              \* ReadStorageSecretConfiguration: conf.VPC as the file has it
  corrected,         \* ReadStorageSecretConfiguration: conf.VPC after getEndpointURL
  IamTokenExchangeURL, \* secretConfig.IamTokenExchangeURL
  IAMAccessToken,    \* secretConfig.IAMAccessToken
  cluster            \* the node object the cluster holds

vars ==
  << pc, op, callNo, RiaasEndpointURL, Node, workerNodeName, resolver, request,
     i, err, shouldStop, calls, sleeps, status, body, nodeinfo, done,
     updates, submitted, pre, answer, failed, present,
     conf, corrected, IamTokenExchangeURL, IAMAccessToken, cluster >>

\* What ReadStorageSecretConfiguration leaves unchanged once it has returned.
config == << conf, corrected, IamTokenExchangeURL, IAMAccessToken >>

NoBody == [kind |-> "none", instances |-> <<>>]
NoRequest == [sent |-> FALSE, RawQuery |-> <<>>]
Sent(rawQuery) == [sent |-> TRUE, RawQuery |-> rawQuery]
\* conf is a local of ReadStorageSecretConfiguration: NoConf outside it.
NoConf == [G2EndpointURL |-> <<>>, G2TokenExchangeURL |-> <<>>, set |-> FALSE]
Conf(endpoint, exchange) ==
  [G2EndpointURL |-> endpoint, G2TokenExchangeURL |-> exchange, set |-> TRUE]
\* The body of the token exchange response, and the token it carries.
AccessToken == <<"t","o","k">>
AccessTokenResponse == [kind |-> "json", instances |-> <<>>]
TokenBodies == {Unreadable, Garbage, AccessTokenResponse}

\* GetAccessTokenResult that does not look at the status code.
GetAccessTokenResultAnyStatus(code, b) ==
  IF b.kind = "unreadable" THEN [token |-> <<>>, err |-> ReadError]
  ELSE IF b.kind = "not json" THEN [token |-> <<>>, err |-> TokenUnmarshalError]
  ELSE [token |-> AccessToken, err |-> Nil]

\* GetAccessToken after ErrorRetry gave no error: (token, err) from the
\* status code of the response and, with status 200, from its body.
GetAccessTokenResult(code, b) ==
  IF code # 200 THEN [token |-> <<>>, err |-> StatusError(code)]
  ELSE IF b.kind = "unreadable" THEN [token |-> <<>>, err |-> ReadError]
  ELSE IF b.kind = "not json" THEN [token |-> <<>>, err |-> TokenUnmarshalError]
  ELSE [token |-> AccessToken, err |-> Nil]

\* The state when main has read the node and is about to read the secret
\* configuration: no endpoint URL is built yet.
Init ==
  /\ pc = "start"
  /\ op = "none"
  /\ callNo = 0
  /\ RiaasEndpointURL = [Scheme |-> <<>>, RawQuery |-> BaseQuery]
  /\ conf = NoConf
  /\ corrected = NoConf
  /\ IamTokenExchangeURL = <<>>
  /\ IAMAccessToken = <<>>
  /\ Node \in [LabelsNil : {FALSE}, Labels : InitialLabels, ResourceVersion : {1}]
              \cup {[LabelsNil |-> TRUE, Labels |-> NoLabels, ResourceVersion |-> 1]}
  /\ cluster = [ResourceVersion |-> Node.ResourceVersion, Labels |-> Node.Labels]
  /\ workerNodeName = <<>>
  /\ resolver = "none"
  /\ request = NoRequest
  /\ i = 0
  /\ err = Nil
  /\ shouldStop = FALSE
  /\ calls = 0
  /\ sleeps = 0
  /\ status = 0
  /\ body = NoBody
  /\ nodeinfo = NoNodeInfo
  /\ done = FALSE
  /\ updates = 0
  /\ submitted = NoLabels
  /\ pre = [RawQuery |-> BaseQuery, Labels |-> NoLabels]
  /\ answer = Nil
  /\ failed = 0
  /\ present = FALSE

\* ------------------------------------------ ReadStorageSecretConfiguration
\* ReadStorageSecretConfiguration up to the first token request: both
\* endpoints go through getEndpointURL, the instance URL is parsed and
\* stored, and GetAccessToken enters ErrorRetry.
ReadStorageSecretConfiguration ==
  /\ pc = "start"
  /\ \E endpoint \in G2EndpointURLs, exchange \in G2TokenExchangeURLs :
       /\ conf' = Conf(endpoint, exchange)
       /\ corrected' = Conf(getEndpointURL(endpoint), getEndpointURL(exchange))
       /\ RiaasEndpointURL' =
            [Scheme |-> getScheme(getEndpointURL(endpoint) \o <<"/","v","1">>),
             RawQuery |-> BaseQuery]
       /\ IamTokenExchangeURL' =
            getEndpointURL(exchange) \o <<"/","o","i","d","c","/","t","o","k","e","n">>
  /\ op' = "GetAccessToken"
  /\ pc' = "retry"
  /\ UNCHANGED << callNo, Node, workerNodeName, resolver, request, i, err,
                  shouldStop, calls, sleeps, status, body, nodeinfo, done,
                  updates, submitted, pre, answer, failed, present,
                  IAMAccessToken, cluster >>

\* GetAccessToken after ErrorRetry gave no error: a status other than 200 is
\* an error that names the status; otherwise the body is read and decoded.
\* With a token ReadStorageSecretConfiguration stores it and returns, and
\* main builds the updater; with an error main exits.
GetAccessTokenResponse ==
  /\ pc = "token"
  /\ \E b \in (IF status # 200 THEN {NoBody} ELSE TokenBodies) :
       LET got == GetAccessTokenResult(status, b)
       IN  /\ body' = b
           /\ err' = got.err
           /\ IF got.err = Nil
              THEN /\ IAMAccessToken' = got.token
                   /\ pc' = "idle"
                   /\ conf' = NoConf
                   /\ corrected' = NoConf
                   /\ i' = 0
                   /\ shouldStop' = FALSE
                   /\ calls' = 0
                   /\ sleeps' = 0
                   /\ failed' = 0
                   /\ answer' = Nil
              ELSE /\ pc' = "exit"
                   /\ UNCHANGED << IAMAccessToken, conf, corrected, i, shouldStop,
                                   calls, sleeps, failed, answer >>
  /\ UNCHANGED << op, callNo, RiaasEndpointURL, Node, workerNodeName, resolver,
                  request, status, nodeinfo, done, updates, submitted, pre,
                  present, IamTokenExchangeURL, cluster >>

\* An operation may be invoked when none is running and the process lives.
CanCall == pc \in {"idle", "returned", "done"} /\ callNo < MaxCalls

\* What every invocation resets: the frame of the previous operation.
Enter(name) ==
  /\ op' = name
  /\ callNo' = callNo + 1
  /\ i' = 0
  /\ err' = Nil
  /\ shouldStop' = FALSE
  /\ calls' = 0
  /\ sleeps' = 0
  /\ status' = 0
  /\ body' = NoBody
  /\ nodeinfo' = NoNodeInfo
  /\ done' = FALSE
  /\ updates' = 0
  /\ submitted' = NoLabels
  /\ request' = NoRequest
  /\ answer' = Nil
  /\ failed' = 0

\* ---------------------------------------------- CheckIfRequiredLabelsPresent
\* CheckIfRequiredLabelsPresent(node.ObjectMeta.Labels), as main calls it.
\* A nil map reads as the empty map.
CallCheckIfRequiredLabelsPresent ==
  /\ CanCall
  /\ Enter("CheckIfRequiredLabelsPresent")
  /\ pc' = "returned"
  /\ present' = CheckIfRequiredLabelsPresent(Node.Labels)
  /\ workerNodeName' = <<>>
  /\ resolver' = "none"
  /\ pre' = [RawQuery |-> RiaasEndpointURL.RawQuery, Labels |-> Node.Labels]
  /\ UNCHANGED << RiaasEndpointURL, Node, config, cluster >>

\* ----------------------------------------------------- ErrorRetry, any op
\* CallErrorRetry with the sleep at the top of the loop, before the first
\* invocation.
CallErrorRetrySleepsFirst ==
  /\ CanCall
  /\ Enter("ErrorRetry")
  /\ pc' = "sleep"
  /\ present' = FALSE
  /\ workerNodeName' = <<>>
  /\ resolver' = "none"
  /\ pre' = [RawQuery |-> RiaasEndpointURL.RawQuery, Labels |-> Node.Labels]
  /\ UNCHANGED << RiaasEndpointURL, Node, config, cluster >>

\* ErrorRetry(logger, funcToRetry) with a supplied operation.
CallErrorRetry ==
  /\ CanCall
  /\ Enter("ErrorRetry")
  /\ pc' = "retry"
  /\ present' = FALSE
  /\ workerNodeName' = <<>>
  /\ resolver' = "none"
  /\ pre' = [RawQuery |-> RiaasEndpointURL.RawQuery, Labels |-> Node.Labels]
  /\ UNCHANGED << RiaasEndpointURL, Node, config, cluster >>

\* One pass of the loop up to the sleep: funcToRetry() answers (e, stop).
Invoke ==
  /\ pc = "retry"
  /\ op = "ErrorRetry"
  /\ \E e \in {Nil, OpError(calls + 1)}, stop \in BOOLEAN :
       /\ answer' = e
       /\ failed' = IF e # Nil THEN failed + 1 ELSE failed
       /\ err' = ErrorRetryStep(e, stop, i).err
       /\ shouldStop' = stop
       /\ calls' = calls + 1
       /\ pc' = IF ErrorRetryStep(e, stop, i).next = "sleep" THEN "sleep" ELSE "returned"
  /\ UNCHANGED << op, callNo, RiaasEndpointURL, Node, workerNodeName, resolver,
                  request, i, sleeps, status, body, nodeinfo, done,
                  updates, submitted, pre, present, config, cluster >>

\* time.Sleep(retryIntervaltime), then the next pass (i++).
Sleep ==
  /\ pc = "sleep"
  /\ sleeps' = sleeps + 1
  /\ i' = i + 1
  /\ pc' = "retry"
  /\ UNCHANGED << op, callNo, RiaasEndpointURL, Node, workerNodeName, resolver,
                  request, err, shouldStop, calls, status, body, nodeinfo,
                  done, updates, submitted, pre, answer, failed, present, config, cluster >>

\* -------------------------------------------------------- UpdateNodeLabel
\* UpdateNodeLabel(ctx, workerNodeName) up to the first request:
\* GetWorkerDetails dispatches; GetInstanceByName writes the name filter
\* into the stored URL, which the request shares.
CallUpdateNodeLabel ==
  /\ CanCall
  /\ \E w \in Workers :
       /\ workerNodeName' = w
       /\ resolver' = GetWorkerDetails(w)
       /\ RiaasEndpointURL' =
            IF GetWorkerDetails(w) = "GetInstanceByName"
            THEN [RiaasEndpointURL EXCEPT !.RawQuery = AddNameFilter(@, w)]
            ELSE RiaasEndpointURL
  /\ Enter("UpdateNodeLabel")
  /\ pc' = "retry"
  /\ present' = FALSE
  /\ pre' = [RawQuery |-> RiaasEndpointURL.RawQuery, Labels |-> Node.Labels]
  /\ UNCHANGED << Node, config, cluster >>

\* The scheme of the URL the running operation sends its request to.
RequestScheme ==
  IF op = "GetAccessToken" THEN getScheme(IamTokenExchangeURL)
  ELSE RiaasEndpointURL.Scheme

\* What the HTTP client's Do answers for the n-th request to a URL of this
\* scheme: the transport knows http and https only.
Answers(scheme, n) ==
  IF scheme \notin {S_http, S_https}
  THEN {[err |-> SchemeError, status |-> 0]}
  ELSE {[err |-> ConnError(n), status |-> 0], [err |-> TransportError(n), status |-> 0]}
       \cup {[err |-> Nil, status |-> c] : c \in {200, 500}}

\* One pass of the loop of ErrorRetry inside GetInstancesFromVPC and inside
\* GetAccessToken: the closure sends the request and stops unless the error
\* is a connection error.
DoRequest ==
  /\ pc = "retry"
  /\ op \in {"UpdateNodeLabel", "GetAccessToken"}
  /\ \E a \in Answers(RequestScheme, calls + 1) :
       LET stop == ~IsConnectionError(a.err)
       IN  /\ answer' = a.err
           /\ failed' = IF a.err # Nil THEN failed + 1 ELSE failed
           /\ err' = ErrorRetryStep(a.err, stop, i).err
           /\ shouldStop' = stop
           /\ status' = a.status
           /\ pc' = IF ErrorRetryStep(a.err, stop, i).next = "sleep"
                    THEN "sleep" ELSE "retried"
  /\ calls' = calls + 1
  /\ request' = IF op = "UpdateNodeLabel" THEN Sent(RiaasEndpointURL.RawQuery)
                ELSE request
  /\ UNCHANGED << op, callNo, RiaasEndpointURL, Node, workerNodeName, resolver,
                  i, sleeps, body, nodeinfo, done, updates, submitted, pre,
                  present, config, cluster >>

\* ErrorRetry returns err to GetInstancesFromVPC and its frame is gone.
\* With an error GetInstancesFromVPC, the resolver and GetWorkerDetails
\* return it in turn; with none the body of the response is read next.
\* In GetAccessToken an error goes up to main, which exits; with none the
\* status of the response is looked at next.
ErrorRetryReturn ==
  /\ pc = "retried"
  /\ IF op = "GetAccessToken"
     THEN /\ pc' = IF err # Nil THEN "exit" ELSE "token"
          /\ UNCHANGED << i, shouldStop, calls, sleeps, failed, answer >>
     ELSE /\ pc' = IF err # Nil THEN "resolved" ELSE "read"
          /\ i' = 0
          /\ shouldStop' = FALSE
          /\ calls' = 0
          /\ sleeps' = 0
          /\ failed' = 0
          /\ answer' = Nil
  /\ UNCHANGED << op, callNo, RiaasEndpointURL, Node, workerNodeName, resolver,
                  request, err, status, body, nodeinfo, done, updates,
                  submitted, pre, present, config, cluster >>

\* GetInstancesFromVPC reads and decodes the body, and the resolver picks
\* its instance: GetWorkerDetails returns (nodeinfo, err) to UpdateNodeLabel.
ReadResponse ==
  /\ pc = "read"
  /\ \E b \in Bodies :
       LET got == GetInstancesFromVPCResult(err, b)
           res == IF got.err # Nil THEN Returned(NoNodeInfo, got.err)
                  ELSE IF resolver = "GetInstanceByName"
                       THEN GetInstanceByNameResult(got.instances, workerNodeName)
                       ELSE GetInstanceByIPResult(got.instances, workerNodeName)
       IN  /\ body' = b
           /\ nodeinfo' = res.info
           /\ err' = res.err
           /\ pc' = IF res.panic THEN "panic" ELSE "resolved"
  /\ UNCHANGED << op, callNo, RiaasEndpointURL, Node, workerNodeName, resolver,
                  request, i, shouldStop, calls, sleeps, status, done, updates,
                  submitted, pre, answer, failed, present, config, cluster >>

\* Reconcile with the label writes ahead of the test of the resolver's error.
ReconcileWritesFirst ==
  /\ pc = "resolved"
  /\ IF Node.LabelsNil
     THEN /\ pc' = "panic"
          /\ UNCHANGED << Node, updates, submitted, err, done >>
     ELSE IF err # Nil
     THEN /\ Node' = [Node EXCEPT !.Labels = WriteLabels(@, nodeinfo)]
          /\ done' = FALSE
          /\ pc' = "done"
          /\ UNCHANGED << updates, submitted, err >>
     ELSE /\ Node' = [Node EXCEPT !.Labels = WriteLabels(@, nodeinfo)]
          /\ submitted' = WriteLabels(Node.Labels, nodeinfo)
          /\ updates' = updates + 1
          /\ pc' = "update"
          /\ UNCHANGED << err, done >>
  /\ body' = NoBody
  /\ status' = 0
  /\ UNCHANGED << op, callNo, RiaasEndpointURL, workerNodeName, resolver, request,
                  i, shouldStop, calls, sleeps, nodeinfo, pre, answer, failed,
                  present, config, cluster >>

\* UpdateNodeLabel after GetWorkerDetails: return the resolver's error, or
\* write the seven labels into the node and send the node to the cluster.
Reconcile ==
  /\ pc = "resolved"
  /\ IF err # Nil
     THEN /\ done' = FALSE
          /\ pc' = "done"
          /\ UNCHANGED << Node, updates, submitted, err >>
     ELSE IF Node.LabelsNil
     THEN /\ pc' = "panic"
          /\ UNCHANGED << Node, updates, submitted, err, done >>
     ELSE /\ Node' = [Node EXCEPT !.Labels = WriteLabels(@, nodeinfo)]
          /\ submitted' = WriteLabels(Node.Labels, nodeinfo)
          /\ updates' = updates + 1
          /\ pc' = "update"
          /\ UNCHANGED << err, done >>
  /\ body' = NoBody
  /\ status' = 0
  /\ UNCHANGED << op, callNo, RiaasEndpointURL, workerNodeName, resolver, request,
                  i, shouldStop, calls, sleeps, nodeinfo, pre, answer, failed,
                  present, config, cluster >>

\* UpdateRequest with the resourceVersion cleared: an unconditional update.
UpdateRequestUnversioned(node) ==
  [ResourceVersion |-> 0, Labels |-> node.Labels]

\* The object of the Update request: c.Node as main read it, its
\* resourceVersion included, with the labels just written.
UpdateRequest(node) ==
  [ResourceVersion |-> node.ResourceVersion, Labels |-> node.Labels]

\* What the cluster does with an Update: an object whose resourceVersion is
\* set and is not the stored one is refused as a conflict; otherwise the
\* stored object is replaced as a whole.  The request may also fail for
\* another reason, and then nothing is stored.
ClusterUpdate(stored, object) ==
  {[err |-> UpdateError, cluster |-> stored]}
  \cup (IF object.ResourceVersion # 0 /\ object.ResourceVersion # stored.ResourceVersion
        THEN {[err |-> ConflictError, cluster |-> stored]}
        ELSE {[err |-> Nil,
               cluster |-> [ResourceVersion |-> stored.ResourceVersion + 1,
                            Labels |-> object.Labels]]})

\* What another writer puts on the node: a label of its own, or the
\* instance id another run of the updater resolved.
OtherWrites ==
  { [key |-> "other", value |-> <<"x">>],
    [key |-> instanceIDLabelKey, value |-> <<"i","9">>] }

\* Another client updates the node after this run read it and before the
\* cluster handles this run's Update.  The cluster's object is looked at by
\* that Update alone, so one such write stands for any number of them, at
\* any earlier moment since the read.
OtherWriter ==
  /\ pc = "update"
  /\ cluster.ResourceVersion = Node.ResourceVersion
  /\ \E w \in OtherWrites :
       cluster' = [ResourceVersion |-> cluster.ResourceVersion + 1,
                   Labels |-> Put(cluster.Labels, w.key, w.value)]
  /\ UNCHANGED << pc, op, callNo, RiaasEndpointURL, Node, workerNodeName, resolver,
                  request, i, err, shouldStop, calls, sleeps, status, body,
                  nodeinfo, done, updates, submitted, pre, answer, failed,
                  present, config >>

\* UpdateReply that submits the update again after a conflict.
UpdateReplyResubmits ==
  /\ pc = "update"
  /\ \E r \in ClusterUpdate(cluster, UpdateRequest(Node)) :
       /\ answer' = r.err
       /\ cluster' = r.cluster
       /\ done' = UpdateNodeLabelReturn(r.err).done
       /\ err' = UpdateNodeLabelReturn(r.err).err
       /\ IF IsConflict(r.err) /\ updates < 2
          THEN pc' = "update" /\ updates' = updates + 1
          ELSE pc' = "done" /\ updates' = updates
  /\ UNCHANGED << op, callNo, RiaasEndpointURL, Node, workerNodeName, resolver,
                  request, i, shouldStop, calls, sleeps, status, body, nodeinfo,
                  submitted, pre, failed, present, config >>

\* UpdateReply that puts the label map back after an update that failed.
UpdateReplyRollsBack ==
  /\ pc = "update"
  /\ \E r \in ClusterUpdate(cluster, UpdateRequest(Node)) :
       /\ answer' = r.err
       /\ cluster' = r.cluster
       /\ done' = UpdateNodeLabelReturn(r.err).done
       /\ err' = UpdateNodeLabelReturn(r.err).err
       /\ Node' = IF r.err # Nil THEN [Node EXCEPT !.Labels = pre.Labels] ELSE Node
  /\ pc' = "done"
  /\ UNCHANGED << op, callNo, RiaasEndpointURL, workerNodeName, resolver,
                  request, i, shouldStop, calls, sleeps, status, body, nodeinfo,
                  updates, submitted, pre, failed, present, config >>

\* The cluster answers the Update, and UpdateNodeLabel returns.  The node
\* object the cluster sends back is dropped: c.Node keeps what it had.
UpdateReply ==
  /\ pc = "update"
  /\ \E r \in ClusterUpdate(cluster, UpdateRequest(Node)) :
       /\ answer' = r.err
       /\ cluster' = r.cluster
       /\ done' = UpdateNodeLabelReturn(r.err).done
       /\ err' = UpdateNodeLabelReturn(r.err).err
  /\ pc' = "done"
  /\ UNCHANGED << op, callNo, RiaasEndpointURL, Node, workerNodeName, resolver,
                  request, i, shouldStop, calls, sleeps, status, body, nodeinfo,
                  updates, submitted, pre, failed, present, config >>

Next ==
  \/ ReadStorageSecretConfiguration
  \/ GetAccessTokenResponse
  \/ CallCheckIfRequiredLabelsPresent
  \/ CallErrorRetry
  \/ Invoke
  \/ Sleep
  \/ CallUpdateNodeLabel
  \/ DoRequest
  \/ ErrorRetryReturn
  \/ ReadResponse
  \/ Reconcile
  \/ OtherWriter
  \/ UpdateReply

Spec == Init /\ [][Next]_vars

\* The loop of ErrorRetry is sequential code: the operation it invokes
\* returns, time.Sleep returns, and the loop goes on to its next statement.
\* The calls of ErrorRetry that main makes before it has an updater: with a
\* supplied operation, and inside GetAccessToken.
RetryNext ==
  \/ ReadStorageSecretConfiguration
  \/ GetAccessTokenResponse
  \/ CallErrorRetry
  \/ Invoke
  \/ Sleep
  \/ DoRequest
  \/ ErrorRetryReturn

\* The loop of ErrorRetry is sequential code: the operation it invokes
\* returns, time.Sleep returns, and the loop goes on to its next statement.
RetrySpec ==
  Init /\ [][RetryNext]_vars
       /\ WF_vars(Invoke) /\ WF_vars(Sleep) /\ WF_vars(DoRequest)
       /\ WF_vars(ErrorRetryReturn)


\* ================================================================== claims
\* An ErrorRetry has returned and its frame is still in view.
RetryReturned == (op = "ErrorRetry" /\ pc = "returned") \/ pc = "retried"

\* The seven keys UpdateNodeLabel is said to write.
SevenKeys ==
  {workerIDLabelKey, instanceIDLabelKey, failureRegionLabelKey, failureZoneLabelKey,
   topologyRegionLabelKey, topologyZoneLabelKey, vpcBlockLabelKey}

\* The identifiers of Workers that are IPv4 or IPv6 literals.
IPLiterals == {W_10_0_0_5, W_loopback6}

\* info is the triple read off instance: its id, its zone name, and the
\* zone name up to its last hyphen.
DerivedFrom(info, instance) ==
  /\ ~info.nil
  /\ ~instance.Zone.nil
  /\ info.InstanceID = instance.ID
  /\ info.Zone = instance.Zone.Name
  /\ \E k \in 1..Len(info.Zone) :
       /\ info.Zone[k] = "-"
       /\ \A j \in (k + 1)..Len(info.Zone) : info.Zone[j] # "-"
       /\ info.Region = SubSeq(info.Zone, 1, k - 1)

\* C1: an operation that fails on every invocation, always retryable, is
\* invoked exactly 30 times, and ErrorRetry then returns the error of the
\* 30th invocation; no call of ErrorRetry invokes its operation a 31st time.
C1_ExhaustsThirtyAttempts ==
  /\ calls <= 30
  /\ (RetryReturned /\ failed = calls /\ ~shouldStop)
       => (calls = 30 /\ err = answer /\ err # Nil /\ err.n = 30)

C1_Witness ==
  /\ op = "ErrorRetry" /\ pc = "returned"
  /\ failed = 30 /\ ~shouldStop /\ err = OpError(30)

\* C2: when the operation answers nil after k retryable failures
\* (0 <= k <= 29), ErrorRetry returns nil and has invoked it k + 1 times,
\* sleeping k times; no earlier error is returned.
C2_SuccessAfterFailures ==
  (RetryReturned /\ answer = Nil)
    => (err = Nil /\ failed <= 29 /\ calls = failed + 1 /\ sleeps = failed)

C2_Witness ==
  /\ op = "ErrorRetry" /\ pc = "returned"
  /\ answer = Nil /\ err = Nil /\ failed = 29 /\ calls = 30

\* C3: ErrorRetry stops at the first invocation that signals terminal: it
\* neither invokes nor sleeps once shouldStop is set, returns the error
\* value of that invocation (nil included), and an operation terminal on
\* its first failure is invoked once.
C3_TerminalStops ==
  /\ (op \in {"ErrorRetry", "UpdateNodeLabel"} /\ pc \in {"retry", "sleep"})
       => ~shouldStop
  /\ (RetryReturned /\ shouldStop) => (err = answer /\ sleeps = calls - 1)
  /\ (RetryReturned /\ shouldStop /\ answer # Nil /\ failed = 1) => calls = 1

C3_Witness ==
  /\ op = "ErrorRetry" /\ pc = "returned"
  /\ shouldStop /\ err = OpError(3) /\ calls = 3 /\ sleeps = 2

C5_SevenKeysWritten ==
  (op = "UpdateNodeLabel" /\ updates >= 1)
    => /\ ~nodeinfo.nil
       /\ DOMAIN submitted = DOMAIN pre.Labels \cup SevenKeys
       /\ \A k \in DOMAIN pre.Labels \ SevenKeys : submitted[k] = pre.Labels[k]
       /\ submitted[workerIDLabelKey] = nodeinfo.InstanceID
       /\ submitted[instanceIDLabelKey] = nodeinfo.InstanceID
       /\ submitted[failureRegionLabelKey] = nodeinfo.Region
       /\ submitted[failureZoneLabelKey] = nodeinfo.Zone
       /\ submitted[topologyRegionLabelKey] = nodeinfo.Region
       /\ submitted[topologyZoneLabelKey] = nodeinfo.Zone
       /\ submitted[vpcBlockLabelKey] = <<"t","r","u","e">>

C5_Witness ==
  /\ op = "UpdateNodeLabel" /\ pc = "update" /\ updates = 1
  /\ "test" \in DOMAIN submitted
  /\ instanceIDLabelKey \in DOMAIN pre.Labels
  /\ pre.Labels[instanceIDLabelKey] # submitted[instanceIDLabelKey]

\* C6: the label map UpdateNodeLabel writes satisfies
\* CheckIfRequiredLabelsPresent, whatever the map was before and whatever
\* NodeInfo was resolved.
C6_WrittenLabelsPassCheck ==
  (op = "UpdateNodeLabel" /\ updates >= 1)
    => (CheckIfRequiredLabelsPresent(submitted) /\ CheckIfRequiredLabelsPresent(Node.Labels))

C6_Witness ==
  /\ op = "UpdateNodeLabel" /\ pc = "update"
  /\ ~CheckIfRequiredLabelsPresent(pre.Labels)
  /\ vpcBlockLabelKey \notin DOMAIN pre.Labels
  /\ CheckIfRequiredLabelsPresent(submitted)

C9_DispatchByParseIP ==
  (op = "UpdateNodeLabel")
    => /\ resolver \in {"GetInstanceByName", "GetInstanceByIP"}
       /\ (resolver = "GetInstanceByIP") <=> (workerNodeName \in IPLiterals)
       /\ (workerNodeName = <<"1","0",".","0",".","0",".","5">>)
            => resolver = "GetInstanceByIP"
       /\ (resolver = "GetInstanceByIP") => RiaasEndpointURL.RawQuery = pre.RawQuery
       /\ (resolver = "GetInstanceByName") => RiaasEndpointURL.RawQuery # pre.RawQuery
       /\ (err.kind = NotFoundError(<<>>).kind) => resolver = "GetInstanceByIP"

C9_Witness ==
  /\ op = "UpdateNodeLabel" /\ pc = "resolved"
  /\ workerNodeName = <<"1","0",".","0",".","0",".","5">>
  /\ resolver = "GetInstanceByIP"
  /\ err = Nil /\ ~nodeinfo.nil

\* C10: GetInstanceByName sends the stored query with one name=<identifier>
\* pair added, and returns the triple of the first entry of the list it
\* gets, whatever that entry's name; an empty list gives the "instance list
\* is empty" error and no NodeInfo.
C10_ByNameTakesFirstEntry ==
  (op = "UpdateNodeLabel" /\ pc = "resolved" /\ resolver = "GetInstanceByName")
    => /\ request.sent
       /\ Len(request.RawQuery) = Len(pre.RawQuery) + 1
       /\ \E n \in 1..Len(request.RawQuery) :
            /\ request.RawQuery[n] = [k |-> "name", v |-> workerNodeName]
            /\ pre.RawQuery = [m \in 1..Len(pre.RawQuery) |->
                                 IF m < n THEN request.RawQuery[m]
                                 ELSE request.RawQuery[m + 1]]
       /\ (body.kind = "json" /\ body.instances = <<>>)
            => (err = EmptyListError /\ nodeinfo.nil)
       /\ (body.kind = "json" /\ body.instances # <<>>)
            => (err = Nil /\ DerivedFrom(nodeinfo, body.instances[1]))

C10_Witness ==
  /\ op = "UpdateNodeLabel" /\ pc = "resolved" /\ resolver = "GetInstanceByName"
  /\ err = Nil
  /\ Len(body.instances) = 2
  /\ body.instances[1].Name # workerNodeName
  /\ body.instances[2].Name = workerNodeName
  /\ nodeinfo.InstanceID = body.instances[1].ID

\* The positions of the fetched list whose entry has queried as its primary
\* IPv4 address.
Matches(list, queried) ==
  {n \in 1..Len(list) :
     /\ ~list[n].PrimaryNetworkInterface.nil
     /\ list[n].PrimaryNetworkInterface.PrimaryIpv4Address = queried}

\* A resolver has returned to UpdateNodeLabel from a non-empty fetched list.
ResolvedFromList(name) ==
  /\ op = "UpdateNodeLabel" /\ pc = "resolved" /\ resolver = name
  /\ body.kind = "json" /\ body.instances # <<>>

\* C11: GetInstanceByIP, given a list with exactly one entry whose primary
\* IPv4 address is the identifier, returns the triple of that entry and of
\* no other; given a non-empty list with no such entry it returns no
\* NodeInfo and the not-found error carrying the identifier.
C11_ByIPTakesTheMatch ==
  ResolvedFromList("GetInstanceByIP")
    => LET found == Matches(body.instances, workerNodeName)
       IN  /\ (Cardinality(found) = 1)
                => \A n \in found :
                     /\ err = Nil
                     /\ DerivedFrom(nodeinfo, body.instances[n])
                     /\ \A m \in 1..Len(body.instances) :
                          (body.instances[m] # body.instances[n])
                            => nodeinfo.InstanceID # body.instances[m].ID
           /\ (found = {})
                => (nodeinfo.nil /\ err = NotFoundError(workerNodeName))

C11_Witness ==
  /\ ResolvedFromList("GetInstanceByIP")
  /\ Len(body.instances) = 2
  /\ Matches(body.instances, workerNodeName) = {2}
  /\ err = Nil
  /\ nodeinfo.InstanceID = body.instances[2].ID

\* C12 as stated: no request GetInstanceByIP sends has a name pair in its
\* query, whatever resolutions came before on the same updater.
C12_ByIPRequestUnfiltered ==
  (op = "UpdateNodeLabel" /\ resolver = "GetInstanceByIP" /\ request.sent)
    => \A n \in 1..Len(request.RawQuery) : request.RawQuery[n].k # "name"

\* The zone name has a hyphen.
HasHyphen(zone) == \E k \in 1..Len(zone) : zone[k] = "-"

\* region is zone without its last hyphen and what follows it.
IsRegionOf(region, zone) ==
  \E tail \in {From(zone, k) : k \in 1..Len(zone)} :
    /\ ~HasHyphen(tail)
    /\ zone = region \o <<"-">> \o tail

\* GetInstanceByName has fetched a non-empty list and handed its first
\* entry to getNodeInfo.
GetNodeInfoOfFirst ==
  /\ op = "UpdateNodeLabel" /\ resolver = "GetInstanceByName"
  /\ body.kind = "json" /\ body.instances # <<>>

\* C13: for an instance whose zone name has a hyphen, getNodeInfo returns
\* the instance's id, the zone name as it is, and as region the zone name
\* up to its last hyphen: "us-south-1" gives "us-south", "xyz-1" gives "xyz".
C13_RegionIsZoneUpToLastHyphen ==
  (/\ GetNodeInfoOfFirst
   /\ ~body.instances[1].Zone.nil
   /\ HasHyphen(body.instances[1].Zone.Name))
    => /\ pc = "resolved"
       /\ ~nodeinfo.nil
       /\ nodeinfo.InstanceID = body.instances[1].ID
       /\ nodeinfo.Zone = body.instances[1].Zone.Name
       /\ IsRegionOf(nodeinfo.Region, nodeinfo.Zone)
       /\ (nodeinfo.Zone = <<"u","s","-","s","o","u","t","h","-","1">>)
            => nodeinfo.Region = <<"u","s","-","s","o","u","t","h">>
       /\ (nodeinfo.Zone = <<"x","y","z","-","1">>)
            => nodeinfo.Region = <<"x","y","z">>

C13_Witness ==
  /\ GetNodeInfoOfFirst /\ pc = "resolved"
  /\ body.instances[1].Zone = Zone(<<"u","s","-","s","o","u","t","h","-","1">>)
  /\ nodeinfo.Region = <<"u","s","-","s","o","u","t","h">>
  /\ nodeinfo.Zone = <<"u","s","-","s","o","u","t","h","-","1">>

\* C14 as stated: when the instance handed to getNodeInfo has a zone name
\* with no hyphen, resolution returns an error and no NodeInfo.
C14_FlatZoneFailsClosed ==
  (/\ GetNodeInfoOfFirst
   /\ ~body.instances[1].Zone.nil
   /\ ~HasHyphen(body.instances[1].Zone.Name))
    => (pc = "resolved" /\ err # Nil /\ nodeinfo.nil)

\* What C15 says of one endpoint: a URL that begins with "http://" comes
\* back with "https://" in its place, any other string as it is.
RewrittenAsStated(url, result) ==
  IF Len(url) >= 7 /\ SubSeq(url, 1, 7) = <<"h","t","t","p",":","/","/">>
  THEN result = <<"h","t","t","p","s">> \o From(url, 4)
  ELSE result = url

\* C15 as stated: getEndpointURL rewrites a leading http:// to https:// and
\* returns every other input unchanged, whatever follows the scheme.
C15_OnlyLeadingHttpRewritten ==
  conf.set
    => /\ RewrittenAsStated(conf.G2EndpointURL, corrected.G2EndpointURL)
       /\ RewrittenAsStated(conf.G2TokenExchangeURL, corrected.G2TokenExchangeURL)

\* C16: writing the labels again, with the same NodeInfo, into the map the
\* reconciler has written gives that same map, for every map it started from.
C16_WritesIdempotent ==
  (op = "UpdateNodeLabel" /\ updates >= 1)
    => /\ WriteLabels(submitted, nodeinfo) = submitted
       /\ WriteLabels(Node.Labels, nodeinfo) = Node.Labels
       /\ WriteLabels(WriteLabels(pre.Labels, nodeinfo), nodeinfo)
            = WriteLabels(pre.Labels, nodeinfo)

C16_Witness ==
  /\ op = "UpdateNodeLabel" /\ pc = "update" /\ callNo = 2
  /\ SevenKeys \subseteq DOMAIN pre.Labels
  /\ pre.Labels[instanceIDLabelKey] = nodeinfo.InstanceID
  /\ submitted = pre.Labels

\* C17: GetAccessToken gives a token only for a response of status 200 with
\* a body that decodes; a response of any other status ends the call with
\* the error that carries the status code, a 200 whose body does not decode
\* ends it with an error too, in both cases with no request after the one
\* that was answered; a request is repeated only after a connection error.
C17_TokenOnlyFrom200 ==
  (op = "GetAccessToken")
    => /\ (IAMAccessToken # <<>>)
            => (pc = "idle" /\ status = 200 /\ body = AccessTokenResponse /\ err = Nil)
       /\ (pc = "idle") => IAMAccessToken # <<>>
       /\ (pc = "exit" /\ status # 0 /\ status # 200)
            => /\ err = StatusError(status) /\ err.n = status
               /\ IAMAccessToken = <<>>
               /\ answer = Nil /\ calls = failed + 1 /\ sleeps = failed
       /\ (pc = "exit" /\ status = 200)
            => /\ err \in {ReadError, TokenUnmarshalError}
               /\ body \in {Unreadable, Garbage}
               /\ IAMAccessToken = <<>>
               /\ answer = Nil /\ calls = failed + 1 /\ sleeps = failed
       /\ (pc = "sleep") => (answer # Nil /\ answer.kind = "dial tcp")
       /\ (pc \in {"token", "exit"} /\ failed = 0) => calls = 1

C17_Witness ==
  /\ op = "GetAccessToken" /\ pc = "exit"
  /\ status = 500 /\ err = StatusError(500)
  /\ calls = 1 /\ sleeps = 0 /\ IAMAccessToken = <<>>

\* C18: with an endpoint URL that is empty or has no scheme, GetAccessToken
\* and GetInstancesFromVPC each end with the unsupported-protocol-scheme
\* error after one request and no sleep.
C18_NoSchemeIsTerminal ==
  /\ (op = "GetAccessToken" /\ getScheme(IamTokenExchangeURL) = <<>>)
       => /\ pc \in {"retry", "retried", "exit"}
          /\ (pc = "retry") => calls = 0
          /\ (pc # "retry")
               => (err = SchemeError /\ calls = 1 /\ sleeps = 0 /\ shouldStop)
  /\ (op = "UpdateNodeLabel" /\ RiaasEndpointURL.Scheme = <<>>)
       => /\ pc \in {"retry", "retried", "resolved", "done"}
          /\ (pc = "retry") => calls = 0
          /\ (pc = "retried")
               => (err = SchemeError /\ calls = 1 /\ sleeps = 0 /\ shouldStop)
          /\ (pc \in {"resolved", "done"})
               => (err = SchemeError /\ nodeinfo.nil /\ updates = 0)

C18_Witness ==
  /\ op = "UpdateNodeLabel" /\ pc = "retried"
  /\ RiaasEndpointURL.Scheme = <<>>
  /\ err = SchemeError /\ calls = 1 /\ sleeps = 0

\* C19 as stated: after a response to the instance-list request whose
\* status is not 2xx, the resolver returns an error and no NodeInfo,
\* whatever the body holds.
C19_Non2xxIsAnError ==
  (op = "UpdateNodeLabel" /\ pc = "resolved" /\ status # 0 /\ status \notin 200..299)
    => (err # Nil /\ nodeinfo.nil)

\* C20 as stated: no operation aborts the process; each returns to its
\* caller, for every instance list the API answers with.
C20_NeverAborts == pc # "panic"

\* An ErrorRetry is running: it is about to invoke its operation or asleep.
RetryRunning == pc \in {"retry", "sleep"}

\* C21: every call of ErrorRetry returns, whatever (error, shouldStop)
\* results its operation gives, after at least 1 and at most 30 invocations.
C21_ErrorRetryTerminates ==
  /\ [](calls <= 30)
  /\ [](RetryReturned => (calls >= 1 /\ calls <= 30))
  /\ (RetryRunning ~> RetryReturned)

C21_Witness ==
  /\ op = "ErrorRetry" /\ pc = "returned"
  /\ calls = 30 /\ shouldStop /\ answer = OpError(30)

\* C22: ErrorRetry sleeps only between two invocations: none before the
\* first, none after the last, so a call that made n invocations slept
\* n - 1 times, at most 29 times, 290 seconds of the 300.
C22_SleepsBetweenInvocations ==
  /\ (RetryRunning /\ pc = "retry") => sleeps = calls
  /\ (RetryRunning /\ pc = "sleep") => (sleeps = calls - 1 /\ calls >= 1)
  /\ RetryReturned
       => /\ sleeps = calls - 1
          /\ sleeps <= 29
          /\ sleeps * retryInterval <= 290
          /\ sleeps * retryInterval <= 5 * 60

C22_Witness ==
  /\ op = "ErrorRetry" /\ pc = "returned"
  /\ calls = 30 /\ sleeps = 29 /\ sleeps * retryInterval = 290

C24_OneUpdatePerCall ==
  (op = "UpdateNodeLabel")
    => /\ updates <= 1
       /\ (pc \in {"update", "done"} /\ ~nodeinfo.nil) => updates = 1
       /\ (pc = "done" /\ updates = 1 /\ answer # Nil)
            => (Node.ResourceVersion = 1 /\ Node.Labels = submitted)

C24_Witness ==
  /\ op = "UpdateNodeLabel" /\ pc = "done" /\ callNo = 2
  /\ updates = 1 /\ answer = ConflictError
  /\ "other" \notin DOMAIN cluster.Labels

C27_StaleUpdateRefused ==
  [][(pc = "update" /\ pc' = "done"
        /\ cluster.ResourceVersion # Node.ResourceVersion)
       => (/\ cluster' = cluster
           /\ answer' \in {ConflictError, UpdateError}
           /\ err' = answer'
           /\ ~done')]_vars

C27_Witness ==
  /\ op = "UpdateNodeLabel" /\ pc = "done" /\ callNo = 1
  /\ answer = ConflictError /\ ~done
  /\ "other" \in DOMAIN cluster.Labels
  /\ vpcBlockLabelKey \notin DOMAIN cluster.Labels

\* C28: a fetch that gives no error gives at least one instance: an empty
\* list ends with the empty-list error before any entry is read, so the
\* by-name resolver's first entry exists and "not found" is reported for
\* a non-empty list only.
C28_NilErrorMeansNonEmpty ==
  (op = "UpdateNodeLabel" /\ body.kind = "json")
    => /\ (body.instances = <<>>)
            => (pc = "resolved" /\ err = EmptyListError /\ nodeinfo.nil)
       /\ (err.kind = NotFoundError(<<>>).kind) => Len(body.instances) >= 1
       /\ (pc = "resolved" /\ err = Nil) => Len(body.instances) >= 1

C28_Witness ==
  /\ op = "UpdateNodeLabel" /\ pc = "resolved" /\ resolver = "GetInstanceByIP"
  /\ body.kind = "json" /\ body.instances = <<>>
  /\ err = EmptyListError

\* C29 as stated: the query of every by-name request holds exactly one name
\* pair, that of the identifier of the call, whatever by-name resolutions
\* came before on the same updater.
C29_OneNameFilter ==
  (op = "UpdateNodeLabel" /\ resolver = "GetInstanceByName" /\ request.sent)
    => LET names == {n \in 1..Len(request.RawQuery) : request.RawQuery[n].k = "name"}
       IN  /\ Cardinality(names) = 1
           /\ \A n \in names : request.RawQuery[n].v = workerNodeName

\* C30: when resolution succeeded, the node in memory holds the seven
\* written keys when UpdateNodeLabel returns, whether the update was taken,
\* conflicted or failed, and so passes CheckIfRequiredLabelsPresent.
C30_NoRollback ==
  (op = "UpdateNodeLabel" /\ pc = "done" /\ updates = 1)
    => /\ SevenKeys \subseteq DOMAIN Node.Labels
       /\ Node.Labels = WriteLabels(pre.Labels, nodeinfo)
       /\ CheckIfRequiredLabelsPresent(Node.Labels)

C30_Witness ==
  /\ op = "UpdateNodeLabel" /\ pc = "done" /\ updates = 1
  /\ answer = UpdateError /\ ~done
  /\ CheckIfRequiredLabelsPresent(Node.Labels)
  /\ ~CheckIfRequiredLabelsPresent(cluster.Labels)

====
